---------------------------- MODULE Spec2Model ----------------------------
(***************************************************************************)
(* A model of the homepage scraping service of src/main.py: the POST       *)
(* /scrape handler (scrape_homepage), the fetcher (scrape_website) and     *)
(* the six extractors it composes.                                         *)
(*                                                                         *)
(* Text is modelled as a sequence of atoms (words, separators, scheme      *)
(* markers); "x in s" on Python strings is contiguous-subsequence          *)
(* containment, str.lower() maps each atom through LowerTable, and         *)
(* str.split() is the sequence itself.  A parsed page (BeautifulSoup) is a *)
(* record of the elements the extractors look at.  A call that raises is   *)
(* the value Raised; a call that returns v is Ok(v).                       *)
(***************************************************************************)
EXTENDS Integers, Sequences, FiniteSets, TLC

VARIABLES
    pc,                    \* control position of the request / of the call
    authorization,         \* the Authorization header of the request
    body_valid,            \* whether the body validates as ScrapeRequest
    upstream,              \* what requests.get(url) does for this request
    html_content,          \* parsed raw markup (response.text)
    cleaned_text,          \* whitespace-joined visible text
    doc,                   \* nlp(cleaned_text): tokens and entity spans
    calls,                 \* how often fetch / analysis were performed
    ran,                   \* the extractors run so far, in order
    fields,                \* the fields of ScrapeResponse evaluated so far
    status,                \* outward HTTP status (0: no response yet)
    responses,             \* number of responses sent for the request
    result,                \* return value of the function under study
    locations,             \* argument of parse_with_opencage
    geo,                   \* what geocoder.geocode does for each string
    pending,               \* strings of set(locations) not yet visited
    structured_locations,  \* the list parse_with_opencage builds
    industry_scores,       \* the defaultdict of determine_specific_industry
    ent_i,                 \* loop index over doc.ents
    appended               \* per link: which lists extract_contact_info appended to

vars == <<pc, authorization, body_valid, upstream, html_content, cleaned_text,
          doc, calls, ran, fields, status, responses, result, locations, geo,
          pending, structured_locations, industry_scores, ent_i, appended>>

(***************************************************************************)
(* Strings and sequences                                                   *)
(***************************************************************************)
Range(s) == {s[i] : i \in DOMAIN s}

SeqsUpTo(S, n) == UNION {[1..k -> S] : k \in 0..n}

Ok(v) == [raised |-> FALSE, value |-> v]

Raised == [raised |-> TRUE, value |-> <<>>]

Unknown == <<"Unknown">>

LowerTable ==
    [w \in {"Welcome", "Home", "About", "Contact", "Acme", "Beta", "Corp",
            "Cloud", "Tech", "Company", "Solutions", "Employees"} |->
        CASE w = "Welcome" -> "welcome"
          [] w = "Home" -> "home"
          [] w = "About" -> "about"
          [] w = "Contact" -> "contact"
          [] w = "Acme" -> "acme"
          [] w = "Beta" -> "beta"
          [] w = "Corp" -> "corp"
          [] w = "Cloud" -> "cloud"
          [] w = "Tech" -> "tech"
          [] w = "Company" -> "company"
          [] w = "Solutions" -> "solutions"
          [] w = "Employees" -> "employees"]

\* str.lower() on one atom
Lower(w) == IF w \in DOMAIN LowerTable THEN LowerTable[w] ELSE w

\* str.lower() on a text
LowerSeq(s) == [i \in DOMAIN s |-> Lower(s[i])]

\* Python's "a in b" for strings
IsSubstr(a, b) ==
    \E i \in 0..(Len(b) - Len(a)) : SubSeq(b, i + 1, i + Len(a)) = a

\* b.startswith(a)
StartsWith(b, a) == Len(b) >= Len(a) /\ SubSeq(b, 1, Len(a)) = a

\* s.replace(a, ""), for a single atom a
RECURSIVE RemoveAtom(_, _)
RemoveAtom(s, a) ==
    IF s = <<>> THEN <<>>
    ELSE IF Head(s) = a THEN RemoveAtom(Tail(s), a)
    ELSE <<Head(s)>> \o RemoveAtom(Tail(s), a)

RECURSIVE LStrip(_)
LStrip(s) == IF s # <<>> /\ Head(s) = " " THEN LStrip(Tail(s)) ELSE s

RECURSIVE RStrip(_)
RStrip(s) ==
    IF s # <<>> /\ s[Len(s)] = " " THEN RStrip(SubSeq(s, 1, Len(s) - 1)) ELSE s

\* str.strip()
Strip(s) == RStrip(LStrip(s))

\* list(set(xs)): the distinct values, in first-occurrence order here (the
\* order Python gives is unspecified and nothing below reads it)
RECURSIVE Dedup(_)
Dedup(s) ==
    IF s = <<>> THEN <<>>
    ELSE LET r == Dedup(SubSeq(s, 1, Len(s) - 1))
             x == s[Len(s)]
         IN IF x \in Range(r) THEN r ELSE Append(r, x)

\* the members of S among 1..n, in ascending order
RECURSIVE SelectIdx(_, _)
SelectIdx(n, S) ==
    IF n = 0 THEN <<>>
    ELSE IF n \in S THEN Append(SelectIdx(n - 1, S), n) ELSE SelectIdx(n - 1, S)

(***************************************************************************)
(* extract_tagline                                                         *)
(***************************************************************************)
generic_words == {<<"home">>, <<"welcome">>, <<"contact">>, <<"about">>}

\* text.lower() not in generic_words and len(text.split()) > 1
TaglineQualifies(text) == LowerSeq(text) \notin generic_words /\ Len(text) > 1

\* soup.find(tag): the first element with that tag, 0 for None
FindHeader(headers, tag) ==
    LET S == {i \in DOMAIN headers : headers[i].tag = tag}
    IN IF S = {} THEN 0 ELSE CHOOSE i \in S : \A j \in S : i <= j

\* steps 2-4: title, meta description, "Unknown"
TaglineFallback(html) ==
    IF html.title.kind = "nostring" THEN Raised
    ELSE LET title == IF html.title.kind = "absent" THEN <<>> ELSE html.title.text
         IN IF title # <<>> /\ TaglineQualifies(title) THEN Ok(title)
            ELSE IF html.meta.kind = "text" /\ html.meta.text # <<>>
                 THEN Ok(Strip(html.meta.text))
            ELSE Ok(Unknown)

RECURSIVE TaglineHeaders(_, _)
TaglineHeaders(html, tags) ==
    IF tags = <<>> THEN TaglineFallback(html)
    ELSE LET i == FindHeader(html.headers, Head(tags))
         IN IF i # 0 /\ TaglineQualifies(html.headers[i].text)
            THEN Ok(html.headers[i].text)
            ELSE TaglineHeaders(html, Tail(tags))

extract_tagline(html) == TaglineHeaders(html, <<"h1", "h2", "h3">>)

(***************************************************************************)
(* extract_contact_info                                                    *)
(***************************************************************************)
\* "mailto:" in link["href"]
MatchesScheme(href, scheme) == IsSubstr(<<scheme>>, href)

\* the links the first loop appends an email for
EmailLinks(links) == {i \in DOMAIN links : MatchesScheme(links[i], "mailto:")}

\* the links the second loop appends a phone for
PhoneLinks(links) == {i \in DOMAIN links : MatchesScheme(links[i], "tel:")}

ContactValue(href, scheme) == Strip(RemoveAtom(href, scheme))

extract_contact_info(html) ==
    LET links == html.links
        em == SelectIdx(Len(links), EmailLinks(links))
        ph == SelectIdx(Len(links), PhoneLinks(links))
    IN [emails |-> Dedup([k \in DOMAIN em |-> ContactValue(links[em[k]], "mailto:")]),
        phones |-> Dedup([k \in DOMAIN ph |-> ContactValue(links[ph[k]], "tel:")])]

(***************************************************************************)
(* nlp(cleaned_text): the analyzed document                                *)
(***************************************************************************)
EntText(d, e) == SubSeq(d.tokens, e.start, e.end)

\* [ent.text for ent in doc.ents if ent.label_ == label]
RECURSIVE EntTexts(_, _, _)
EntTexts(d, ents, label) ==
    IF ents = <<>> THEN <<>>
    ELSE IF Head(ents).label = label
         THEN <<EntText(d, Head(ents))>> \o EntTexts(d, Tail(ents), label)
         ELSE EntTexts(d, Tail(ents), label)

MaxSpan == 2

\* the labelled spans of a text of n tokens that start at or after from
SpansFrom(n, from) ==
    {[start |-> a, end |-> b, label |-> l] :
        a \in from..n, b \in from..n, l \in {"ORG", "GPE"}}

\* doc.ents: at most k labelled spans, in document order, not overlapping
RECURSIVE NerFrom(_, _, _)
NerFrom(n, from, k) ==
    {<<>>} \cup
    (IF k = 0 THEN {}
     ELSE UNION {{<<e>> \o r : r \in NerFrom(n, e.end + 1, k - 1)} :
                    e \in {x \in SpansFrom(n, from) :
                              x.start <= x.end /\ x.end - x.start < MaxSpan}})

NerChoices(text, maxEnts) == NerFrom(Len(text), 1, maxEnts)

(***************************************************************************)
(* extract_company_size                                                    *)
(***************************************************************************)
\* the decimal digits of each IS_DIGIT token of the vocabulary
DigitsOf ==
    [t \in {"0", "49", "50", "499", "500"} |->
        CASE t = "0" -> <<0>>
          [] t = "49" -> <<4, 9>>
          [] t = "50" -> <<5, 0>>
          [] t = "499" -> <<4, 9, 9>>
          [] t = "500" -> <<5, 0, 0>>]

\* token.is_digit
IsDigit(tok) == tok \in DOMAIN DigitsOf

\* "#" stands for {"IS_DIGIT": True}, a word w for {"LOWER": w}
patterns ==
    << <<"team", "of", "#", "people">>,
       <<"#", "employees">>,
       <<"#", "staff">>,
       <<"over", "#", "employees">>,
       <<"fewer", "than", "#", "employees">> >>

TokenMatches(tok, elt) == IF elt = "#" THEN IsDigit(tok) ELSE Lower(tok) = elt

PatternAt(tokens, p, start) ==
    /\ start + Len(p) - 1 <= Len(tokens)
    /\ \A k \in DOMAIN p : TokenMatches(tokens[start + k - 1], p[k])

\* matcher(doc): the (start, end) of every pattern match
Matches(tokens) ==
    {[start |-> s, end |-> s + Len(patterns[j]) - 1] :
        <<s, j>> \in {m \in (DOMAIN tokens) \X (DOMAIN patterns) :
                         PatternAt(tokens, patterns[m[2]], m[1])}}

\* the match the for loop sees first
FirstMatch(M) ==
    CHOOSE m \in M : \A o \in M :
        m.start < o.start \/ (m.start = o.start /\ m.end <= o.end)

\* "".join(filter(str.isdigit, span.text)), as a digit sequence
RECURSIVE SpanDigits(_)
SpanDigits(span) ==
    IF span = <<>> THEN <<>>
    ELSE (IF IsDigit(Head(span)) THEN DigitsOf[Head(span)] ELSE <<>>)
         \o SpanDigits(Tail(span))

\* int(digits)
RECURSIVE ParseInt(_)
ParseInt(ds) ==
    IF ds = <<>> THEN 0
    ELSE 10 * ParseInt(SubSeq(ds, 1, Len(ds) - 1)) + ds[Len(ds)]

\* a faulty variant of Bucket: the first boundary is inclusive
BucketInclusive(size) ==
    IF size <= 50 THEN "Small" ELSE IF size < 500 THEN "Medium" ELSE "Large"

Bucket(size) ==
    IF size < 50 THEN "Small" ELSE IF size < 500 THEN "Medium" ELSE "Large"

extract_company_size(d) ==
    LET M == Matches(d.tokens)
    IN IF M = {} THEN "Unknown"
       ELSE LET m == FirstMatch(M)
            IN Bucket(ParseInt(SpanDigits(SubSeq(d.tokens, m.start, m.end))))

(***************************************************************************)
(* extract_company_name                                                    *)
(***************************************************************************)
\* "--" stands for the en dash, "*" for the bullet
separators == <<"|", "-", ":", "--", "*">>

\* title.split(sep)[0].strip() when sep in title
SplitFirst(title, sep) ==
    IF sep \in Range(title)
    THEN LET i == CHOOSE k \in DOMAIN title :
                      title[k] = sep /\ \A j \in 1..(k - 1) : title[j] # sep
         IN Strip(SubSeq(title, 1, i - 1))
    ELSE title

RECURSIVE CleanTitle(_, _)
CleanTitle(title, seps) ==
    IF seps = <<>> THEN title
    ELSE CleanTitle(SplitFirst(title, Head(seps)), Tail(seps))

blacklist == {"Financial", "Healthcare", "Solutions", "Lists", "Database", "Ecosystem"}

\* any(kw.lower() in org.lower() for kw in blacklist)
Blacklisted(org) == \E kw \in blacklist : IsSubstr(<<Lower(kw)>>, LowerSeq(org))

RECURSIVE FilterOrgs(_)
FilterOrgs(orgs) ==
    IF orgs = <<>> THEN <<>>
    ELSE IF Blacklisted(Head(orgs)) THEN FilterOrgs(Tail(orgs))
    ELSE <<Head(orgs)>> \o FilterOrgs(Tail(orgs))

\* Counter(org_entities): occurrences of each distinct entity
Counter(orgs) ==
    [o \in Range(orgs) |-> Cardinality({i \in DOMAIN orgs : orgs[i] = o})]

TitleBoost(org, title) == IF IsSubstr(LowerSeq(org), LowerSeq(title)) THEN 5 ELSE 0

ContextBoost(org, text) ==
    IF IsSubstr(<<"company">>, LowerSeq(text)) /\ IsSubstr(org, text) THEN 3 ELSE 0

\* for org in org_entities: entity_counts[org] += ...
RECURSIVE BoostLoop(_, _, _, _)
BoostLoop(orgs, counts, title, text) ==
    IF orgs = <<>> THEN counts
    ELSE LET org == Head(orgs)
         IN BoostLoop(Tail(orgs),
                      [counts EXCEPT ![org] =
                          @ + TitleBoost(org, title) + ContextBoost(org, text)],
                      title, text)

\* max(entity_counts, key=...): the first key, in insertion order, of maximal score
FirstMax(keys, score) ==
    LET i == CHOOSE k \in DOMAIN keys :
                 /\ \A j \in DOMAIN keys : score[keys[j]] <= score[keys[k]]
                 /\ \A j \in 1..(k - 1) : score[keys[j]] < score[keys[k]]
    IN keys[i]

extract_company_name(d, text, html) ==
    IF html.title.kind = "nostring" THEN Raised
    ELSE LET raw == IF html.title.kind = "absent" THEN <<>> ELSE html.title.text
             title == CleanTitle(raw, separators)
             org_entities == FilterOrgs(EntTexts(d, d.ents, "ORG"))
             entity_counts == BoostLoop(org_entities, Counter(org_entities), title, text)
         IN IF org_entities # <<>>
            THEN Ok(FirstMax(Dedup(org_entities), entity_counts))
            ELSE IF title # <<>> THEN Ok(title) ELSE Ok(Unknown)

(***************************************************************************)
(* determine_specific_industry                                             *)
(***************************************************************************)
\* the dict, in insertion order
industry_keywords ==
    << [industry |-> "finance",
        keywords |-> << <<"banking">>, <<"financial">>, <<"investment">>,
                        <<"insurance">>, <<"wealth">> >>],
       [industry |-> "healthcare",
        keywords |-> << <<"medical">>, <<"healthcare">>, <<"hospital">>,
                        <<"clinic">>, <<"pharma">> >>],
       [industry |-> "technology",
        keywords |-> << <<"tech">>, <<"software">>, <<"cloud">>, <<"ai">>,
                        <<"data", "science">> >>] >>

contextual_anchors == << <<"industry">>, <<"sector">>, <<"solutions", "for">> >>

\* industry_scores[industry] += n on a defaultdict(int), kept in insertion order
AddScore(scores, industry, n) ==
    IF \E i \in DOMAIN scores : scores[i].industry = industry
    THEN [i \in DOMAIN scores |->
             IF scores[i].industry = industry
             THEN [scores[i] EXCEPT !.score = @ + n] ELSE scores[i]]
    ELSE Append(scores, [industry |-> industry, score |-> n])

\* the anchors a with "a keyword" or "keyword a" in the lowercased text
AnchorHits(keyword, low) ==
    Cardinality({a \in DOMAIN contextual_anchors :
        \/ IsSubstr(contextual_anchors[a] \o keyword, low)
        \/ IsSubstr(keyword \o contextual_anchors[a], low)})

\* the inner loop of the text pass, for one industry
RECURSIVE TextKeywords(_, _, _, _)
TextKeywords(scores, industry, keywords, low) ==
    IF keywords = <<>> THEN scores
    ELSE LET kw == Head(keywords)
         IN TextKeywords(
                IF IsSubstr(kw, low)
                THEN AddScore(scores, industry, 2 * AnchorHits(kw, low) + 1)
                ELSE scores,
                industry, Tail(keywords), low)

\* the first loop: keywords in the text, boosted near anchors
RECURSIVE TextPass(_, _, _)
TextPass(scores, table, low) ==
    IF table = <<>> THEN scores
    ELSE TextPass(TextKeywords(scores, Head(table).industry, Head(table).keywords, low),
                  Tail(table), low)

RECURSIVE OrgKeywords(_, _, _, _)
OrgKeywords(scores, industry, keywords, lowEnt) ==
    IF keywords = <<>> THEN scores
    ELSE OrgKeywords(
             IF IsSubstr(Head(keywords), lowEnt) THEN AddScore(scores, industry, 3)
             ELSE scores,
             industry, Tail(keywords), lowEnt)

RECURSIVE OrgTable(_, _, _)
OrgTable(scores, table, lowEnt) ==
    IF table = <<>> THEN scores
    ELSE OrgTable(OrgKeywords(scores, Head(table).industry, Head(table).keywords, lowEnt),
                  Tail(table), lowEnt)

\* one iteration of "for ent in doc.ents"
OrgStep(scores, d, e, table) ==
    IF e.label = "ORG" THEN OrgTable(scores, table, LowerSeq(EntText(d, e)))
    ELSE scores

RECURSIVE OrgPass(_, _, _, _)
OrgPass(scores, d, ents, table) ==
    IF ents = <<>> THEN scores
    ELSE OrgPass(OrgStep(scores, d, Head(ents), table), d, Tail(ents), table)

\* a faulty variant of SortedScores: an ascending sort
RECURSIVE SortAscending(_)
SortAscending(s) ==
    IF s = <<>> THEN <<>>
    ELSE LET rest == SortAscending(SubSeq(s, 1, Len(s) - 1))
             x == s[Len(s)]
             k == Cardinality({i \in DOMAIN rest : rest[i].score <= x.score})
         IN SubSeq(rest, 1, k) \o <<x>> \o SubSeq(rest, k + 1, Len(rest))

\* sorted(items, key=score, reverse=True): stable, descending
RECURSIVE SortedScores(_)
SortedScores(s) ==
    IF s = <<>> THEN <<>>
    ELSE LET rest == SortedScores(SubSeq(s, 1, Len(s) - 1))
             x == s[Len(s)]
             k == Cardinality({i \in DOMAIN rest : rest[i].score >= x.score})
         IN SubSeq(rest, 1, k) \o <<x>> \o SubSeq(rest, k + 1, Len(rest))

\* ", ".join(names)
RECURSIVE Join(_)
Join(names) ==
    IF names = <<>> THEN <<>>
    ELSE IF Len(names) = 1 THEN names
    ELSE <<Head(names), ", ">> \o Join(Tail(names))

\* lines 202-208: sort, "Unknown" or the industries at the maximum
SelectIndustry(scores) ==
    LET sorted_scores == SortedScores(scores)
    IN IF sorted_scores = <<>> \/ sorted_scores[1].score = 0
       THEN [top_industry |-> Unknown, scores |-> <<>>]
       ELSE LET max_score == sorted_scores[1].score
                top == SelectIdx(Len(sorted_scores),
                          {i \in DOMAIN sorted_scores :
                              sorted_scores[i].score = max_score})
            IN [top_industry |->
                    Join([k \in DOMAIN top |-> sorted_scores[top[k]].industry]),
                scores |-> sorted_scores]

determine_specific_industry(d, text, table) ==
    SelectIndustry(OrgPass(TextPass(<<>>, table, LowerSeq(text)), d, d.ents, table))

(***************************************************************************)
(* parse_with_opencage / extract_locations                                 *)
(***************************************************************************)
\* components.get(key), None as "" (both are falsy and nothing else reads them)
Get(components, key, default) ==
    IF key \in DOMAIN components THEN components[key] ELSE default

\* a faulty variant of GeoEntry: an entry is appended whenever a city is known
GeoEntryCityOnly(out) ==
    IF out.kind # "result" THEN <<>>
    ELSE LET c == out.components
             city == Get(c, "city", Get(c, "town", Get(c, "village", "")))
             country == Get(c, "country", "")
         IN IF city # "" THEN << [city |-> city, country |-> country] >>
            ELSE IF country # "" THEN << [country |-> country] >>
            ELSE <<>>

\* the body of the loop for one string: what it appends (nothing on an
\* exception, an empty result, or a result without country)
GeoEntry(out) ==
    IF out.kind # "result" THEN <<>>
    ELSE LET c == out.components
             city == Get(c, "city", Get(c, "town", Get(c, "village", "")))
             country == Get(c, "country", "")
         IN IF country # ""
            THEN IF city # "" THEN << [city |-> city, country |-> country] >>
                 ELSE << [country |-> country] >>
            ELSE <<>>

\* the whole loop, visiting set(locations) in the given order
RECURSIVE parse_with_opencage(_, _)
parse_with_opencage(order, g) ==
    IF order = <<>> THEN <<>>
    ELSE GeoEntry(g[Head(order)]) \o parse_with_opencage(Tail(order), g)

Components(S) == [kind |-> "result", components |-> S]

\* what geocoder.geocode(location) may do
GeoOutcomes ==
    {[kind |-> "exception", components |-> <<>>],
     [kind |-> "empty", components |-> <<>>],
     Components([k \in {"city"} |-> "Paris"]),
     Components([k \in {"town"} |-> "Vence"]),
     Components([k \in {"country"} |-> "France"]),
     Components([k \in {"city", "country"} |-> IF k = "city" THEN "Paris" ELSE "France"]),
     Components([k \in {"city", "country"} |-> IF k = "city" THEN "Berlin" ELSE "Germany"]),
     Components([k \in {"town", "country"} |-> IF k = "town" THEN "Vence" ELSE "France"]),
     Components([k \in {"village", "country"} |-> IF k = "village" THEN "Giverny" ELSE "France"]),
     Components([k \in {"city", "town", "country"} |->
                    IF k = "city" THEN "" ELSE IF k = "town" THEN "Vence" ELSE "France"]),
     Components([k \in {"city", "country"} |-> IF k = "city" THEN "Paris" ELSE ""])}

(***************************************************************************)
(* State the functions do not use                                          *)
(***************************************************************************)
NoPage == [title |-> [kind |-> "absent", text |-> <<>>], headers |-> <<>>,
           meta |-> [kind |-> "absent", text |-> <<>>], links |-> <<>>]

NoDoc == [tokens |-> <<>>, ents |-> <<>>]

NoResult == Ok(<<>>)

IdleRequest ==
    /\ authorization = "None"
    /\ body_valid = TRUE
    /\ upstream = [kind |-> "none"]
    /\ calls = [fetch |-> 0, analyze |-> 0, analyzed |-> 0]
    /\ ran = <<>>
    /\ fields = <<>>
    /\ status = 0
    /\ responses = 0

IdleGeo ==
    /\ locations = <<>>
    /\ geo = <<>>
    /\ pending = {}
    /\ structured_locations = <<>>

IdleIndustry == industry_scores = <<>> /\ ent_i = 0

requestVars == <<authorization, body_valid, upstream, calls, ran, fields, status, responses>>

geoVars == <<locations, geo, pending, structured_locations>>

industryVars == <<industry_scores, ent_i>>

pageVars == <<html_content, cleaned_text, doc>>

(***************************************************************************)
(* extract_tagline on its own                                              *)
(***************************************************************************)
MaxHeaders == 2

HeaderTexts == {<<>>, <<"Welcome">>, <<"Building", "Tomorrow">>, <<"Our", "Mission">>}

HeaderElements == [tag : {"h1", "h2", "h3"}, text : HeaderTexts]

TaglineTitles ==
    {[kind |-> "absent", text |-> <<>>], [kind |-> "text", text |-> <<>>],
     [kind |-> "text", text |-> <<"Home">>], [kind |-> "text", text |-> <<"Acme", "Corp">>]}

TaglineMetas ==
    {[kind |-> "absent", text |-> <<>>], [kind |-> "nocontent", text |-> <<>>],
     [kind |-> "text", text |-> <<" ", "We", "build", " ">>]}

InitTagline ==
    /\ pc = "call"
    /\ html_content \in [title : TaglineTitles,
                         headers : SeqsUpTo(HeaderElements, MaxHeaders),
                         meta : TaglineMetas, links : {<<>>}]
    /\ cleaned_text = <<>>
    /\ doc = NoDoc
    /\ result = NoResult
    /\ appended = <<>>
    /\ IdleRequest /\ IdleGeo /\ IdleIndustry

TaglineCall ==
    /\ pc = "call"
    /\ result' = extract_tagline(html_content)
    /\ pc' = "returned"
    /\ UNCHANGED <<pageVars, requestVars, geoVars, industryVars, appended>>

SpecTagline == InitTagline /\ [][TaglineCall]_vars

\* the headers of levels 1-3 that pass the generic/length filter
QualifyingHeaders(html) ==
    {i \in DOMAIN html.headers :
        /\ html.headers[i].tag \in {"h1", "h2", "h3"}
        /\ TaglineQualifies(html.headers[i].text)}

\* C4: extract_tagline returns the text of the first header, in document
\* order over all h1, h2 and h3 elements, that is not a generic word and has
\* more than one word; only when none qualifies does it fall through to the
\* title, the meta description and "Unknown".
C4_TaglineFirstQualifyingHeader ==
    pc = "returned" =>
        LET Q == QualifyingHeaders(html_content)
        IN IF Q # {}
           THEN result = Ok(html_content.headers[CHOOSE i \in Q : \A j \in Q : i <= j].text)
           ELSE result = TaglineFallback(html_content)

(***************************************************************************)
(* extract_contact_info on its own                                         *)
(***************************************************************************)
MaxLinks == 2

MaxHrefLen == 3

HrefAtoms == {"mailto:", "tel:", "a@x.com", "http://ho", "?"}

InitContact ==
    /\ pc = "call"
    /\ html_content \in [title : {[kind |-> "absent", text |-> <<>>]},
                         headers : {<<>>},
                         meta : {[kind |-> "absent", text |-> <<>>]},
                         links : SeqsUpTo(SeqsUpTo(HrefAtoms, MaxHrefLen), MaxLinks)]
    /\ cleaned_text = <<>>
    /\ doc = NoDoc
    /\ result = NoResult
    /\ appended = <<>>
    /\ IdleRequest /\ IdleGeo /\ IdleIndustry

ContactCall ==
    /\ pc = "call"
    /\ result' = Ok(extract_contact_info(html_content))
    /\ appended' = [i \in DOMAIN html_content.links |->
                       (IF i \in EmailLinks(html_content.links) THEN {"emails"} ELSE {})
                       \cup
                       (IF i \in PhoneLinks(html_content.links) THEN {"phones"} ELSE {})]
    /\ pc' = "returned"
    /\ UNCHANGED <<pageVars, requestVars, geoVars, industryVars>>

SpecContact == InitContact /\ [][ContactCall]_vars

\* C7: a link adds to the emails only if its href begins with "mailto:", to
\* the phones only if its href begins with "tel:", and never to both.
C7_OneSchemePerLink ==
    pc = "returned" =>
        \A i \in DOMAIN appended :
            /\ "emails" \in appended[i] => StartsWith(html_content.links[i], <<"mailto:">>)
            /\ "phones" \in appended[i] => StartsWith(html_content.links[i], <<"tel:">>)
            /\ appended[i] # {"emails", "phones"}

(***************************************************************************)
(* extract_company_size on its own                                         *)
(***************************************************************************)
MaxSizeTokens == 4

SizeVocabulary ==
    {"team", "of", "people", "Employees", "staff", "over", "fewer", "than",
     "0", "49", "50", "499", "500"}

InitSize ==
    /\ pc = "call"
    /\ html_content = NoPage
    /\ cleaned_text \in SeqsUpTo(SizeVocabulary, MaxSizeTokens)
    /\ doc = [tokens |-> cleaned_text, ents |-> <<>>]
    /\ result = NoResult
    /\ appended = <<>>
    /\ IdleRequest /\ IdleGeo /\ IdleIndustry

SizeCall ==
    /\ pc = "call"
    /\ result' = Ok(extract_company_size(doc))
    /\ pc' = "returned"
    /\ UNCHANGED <<pageVars, requestVars, geoVars, industryVars, appended>>

SpecSize == InitSize /\ [][SizeCall]_vars

\* the number a digit token denotes
StaffCount(tok) ==
    CASE tok = "0" -> 0 [] tok = "49" -> 49 [] tok = "50" -> 50
      [] tok = "499" -> 499 [] tok = "500" -> 500

\* a size phrase around the digit token at position p: "team of N people",
\* "N employees", "N staff" ("over N employees" and "fewer than N employees"
\* contain "N employees")
SizePhraseAt(tokens, p) ==
    /\ p \in DOMAIN tokens
    /\ tokens[p] \in {"0", "49", "50", "499", "500"}
    /\ p + 1 \in DOMAIN tokens
    /\ \/ Lower(tokens[p + 1]) \in {"employees", "staff"}
       \/ /\ Lower(tokens[p + 1]) = "people"
          /\ p > 2
          /\ Lower(tokens[p - 2]) = "team"
          /\ Lower(tokens[p - 1]) = "of"

SizePhrases(tokens) == {p \in DOMAIN tokens : SizePhraseAt(tokens, p)}

MaxNameTokens == 5

MaxNameEnts == 4

NameVocabulary == {"Acme", "Beta", "company"}

NameTitles ==
    {[kind |-> "absent", text |-> <<>>],
     [kind |-> "text", text |-> <<"Acme", " ", "|", " ", "Home">>]}

InitName ==
    /\ pc = "call"
    /\ html_content \in [title : NameTitles, headers : {<<>>},
                         meta : {[kind |-> "absent", text |-> <<>>]}, links : {<<>>}]
    /\ cleaned_text \in SeqsUpTo(NameVocabulary, MaxNameTokens)
    /\ doc \in [tokens : {cleaned_text}, ents : NerChoices(cleaned_text, MaxNameEnts)]
    /\ result = NoResult
    /\ appended = <<>>
    /\ IdleRequest /\ IdleGeo /\ IdleIndustry

NameCall ==
    /\ pc = "call"
    /\ result' = extract_company_name(doc, cleaned_text, html_content)
    /\ pc' = "returned"
    /\ UNCHANGED <<pageVars, requestVars, geoVars, industryVars, appended>>

SpecName == InitName /\ [][NameCall]_vars

\* the score the specification gives a distinct entity: its occurrences,
\* plus 5 once for a title match, plus 3 once for the "company" context
SpecifiedScore(org, orgs, title, text) ==
    Cardinality({i \in DOMAIN orgs : orgs[i] = org})
    + TitleBoost(org, title) + ContextBoost(org, text)

\* C8: each distinct non-blacklisted ORG entity scores its occurrence count,
\* plus 5 once if it is in the title, plus 3 once for the "company" context,
\* and the function returns the first entity of highest such score.
C8_NameBonusOncePerEntity ==
    pc = "returned" =>
        LET orgs == FilterOrgs(EntTexts(doc, doc.ents, "ORG"))
            title == CleanTitle(html_content.title.text, separators)
            keys == Dedup(orgs)
            score == [o \in Range(orgs) |-> SpecifiedScore(o, orgs, title, cleaned_text)]
        IN orgs # <<>> => result = Ok(FirstMax(keys, score))

(***************************************************************************)
(* determine_specific_industry, loop by loop                               *)
(***************************************************************************)
MaxIndustryTokens == 3

MaxIndustryEnts == 2

IndustryVocabulary == {"Cloud", "banking", "medical", "industry", "Acme"}

InitIndustry ==
    /\ pc = "text"
    /\ html_content = NoPage
    /\ cleaned_text \in SeqsUpTo(IndustryVocabulary, MaxIndustryTokens)
    /\ doc \in [tokens : {cleaned_text}, ents : NerChoices(cleaned_text, MaxIndustryEnts)]
    /\ industry_scores = <<>>
    /\ ent_i = 0
    /\ result = NoResult
    /\ appended = <<>>
    /\ IdleRequest /\ IdleGeo

\* lines 185-191
IndustryTextPass ==
    /\ pc = "text"
    /\ industry_scores' = TextPass(industry_scores, industry_keywords, LowerSeq(cleaned_text))
    /\ ent_i' = 1
    /\ pc' = "orgs"
    /\ UNCHANGED <<pageVars, requestVars, geoVars, result, appended>>

\* lines 194-199, one entity
IndustryOrgStep ==
    /\ pc = "orgs"
    /\ ent_i <= Len(doc.ents)
    /\ industry_scores' = OrgStep(industry_scores, doc, doc.ents[ent_i], industry_keywords)
    /\ ent_i' = ent_i + 1
    /\ UNCHANGED <<pc, pageVars, requestVars, geoVars, result, appended>>

\* lines 202-208
IndustryReturn ==
    /\ pc = "orgs"
    /\ ent_i > Len(doc.ents)
    /\ result' = Ok(SelectIndustry(industry_scores))
    /\ pc' = "returned"
    /\ UNCHANGED <<pageVars, requestVars, geoVars, industryVars, appended>>

NextIndustry == IndustryTextPass \/ IndustryOrgStep \/ IndustryReturn

SpecIndustry == InitIndustry /\ [][NextIndustry]_vars

\* the score of an industry as section 4.3 states it: 1 per keyword in the
\* text, 2 per anchor adjacent to it, 3 per (ORG entity, keyword) containment
SpecifiedIndustryScore(row) ==
    LET low == LowerSeq(cleaned_text)
        K == {k \in DOMAIN row.keywords : IsSubstr(row.keywords[k], low)}
        A == {ka \in K \X (DOMAIN contextual_anchors) :
                 \/ IsSubstr(contextual_anchors[ka[2]] \o row.keywords[ka[1]], low)
                 \/ IsSubstr(row.keywords[ka[1]] \o contextual_anchors[ka[2]], low)}
        O == {ek \in (DOMAIN doc.ents) \X (DOMAIN row.keywords) :
                 /\ doc.ents[ek[1]].label = "ORG"
                 /\ IsSubstr(row.keywords[ek[2]], LowerSeq(EntText(doc, doc.ents[ek[1]])))}
    IN Cardinality(K) + 2 * Cardinality(A) + 3 * Cardinality(O)

\* the industries at the maximum score, in order of first appearance
TopIndustries(maxScore) ==
    LET top == SelectIdx(Len(industry_keywords),
                   {i \in DOMAIN industry_keywords :
                       SpecifiedIndustryScore(industry_keywords[i]) = maxScore})
    IN [k \in DOMAIN top |-> industry_keywords[top[k]].industry]

\* C9: "Unknown" with an empty score list exactly when no industry scores
\* above 0; otherwise top_industry joins exactly the industries at the
\* maximum, in order of first appearance, and scores lists every scored
\* industry with its score, sorted by score descending.
C9_IndustrySelection ==
    pc = "returned" =>
        LET r == result.value
            score == [i \in DOMAIN industry_keywords |->
                         SpecifiedIndustryScore(industry_keywords[i])]
            scored == {i \in DOMAIN industry_keywords : score[i] > 0}
        IN /\ (r.top_industry = Unknown /\ r.scores = <<>>) <=> (scored = {})
           /\ scored # {} =>
                LET maxScore == CHOOSE m \in {score[i] : i \in scored} :
                                    \A i \in scored : score[i] <= m
                IN /\ r.top_industry = Join(TopIndustries(maxScore))
                   /\ Len(r.scores) = Cardinality(scored)
                   /\ Range(r.scores) =
                        {[industry |-> industry_keywords[i].industry, score |-> score[i]] :
                            i \in scored}
                   /\ \A i \in 1..(Len(r.scores) - 1) :
                        r.scores[i].score >= r.scores[i + 1].score

\* two industries tie at the maximum below a third scored industry's rank:
\* the label joins the two tied ones
C9_Witness ==
    /\ pc = "returned"
    /\ result.value.top_industry = <<"finance", ", ", "technology">>
    /\ Len(result.value.scores) = 2

(***************************************************************************)
(* parse_with_opencage, iteration by iteration                             *)
(***************************************************************************)
MaxLocations == 3

Places == {"Paris", "Berlin", "Atlantis"}

InitGeo ==
    /\ pc = "loop"
    /\ locations \in SeqsUpTo(Places, MaxLocations)
    /\ geo \in [Range(locations) -> GeoOutcomes]
    /\ pending = Range(locations)
    /\ structured_locations = <<>>
    /\ html_content = NoPage
    /\ cleaned_text = <<>>
    /\ doc = NoDoc
    /\ result = NoResult
    /\ appended = <<>>
    /\ IdleRequest /\ IdleIndustry

\* lines 159-172: one string of set(locations), in whatever order the set gives
GeocodeStep ==
    /\ pc = "loop"
    /\ \E location \in pending :
          /\ structured_locations' = structured_locations \o GeoEntry(geo[location])
          /\ pending' = pending \ {location}
    /\ UNCHANGED <<pc, locations, geo, pageVars, requestVars, industryVars, result, appended>>

\* line 174
GeocodeReturn ==
    /\ pc = "loop"
    /\ pending = {}
    /\ result' = Ok(structured_locations)
    /\ pc' = "returned"
    /\ UNCHANGED <<geoVars, pageVars, requestVars, industryVars, appended>>

NextGeo == GeocodeStep \/ GeocodeReturn

SpecGeo == InitGeo /\ [][NextGeo]_vars

\* the lookup of a string yields a country
YieldsCountry(out) ==
    /\ out.kind = "result"
    /\ "country" \in DOMAIN out.components
    /\ out.components["country"] # ""

\* C6: the list holds exactly one entry for each distinct string, visited so
\* far, whose lookup yields a country, whatever the other lookups did, and
\* every entry has a country.
C6_OneEntryPerResolvedString ==
    LET visited == Range(locations) \ pending
        countries == {geo[l].components["country"] : l \in {v \in visited : YieldsCountry(geo[v])}}
    IN /\ Len(structured_locations) = Cardinality({l \in visited : YieldsCountry(geo[l])})
       /\ \A e \in Range(structured_locations) :
             "country" \in DOMAIN e /\ e["country"] # ""
       /\ \A c \in countries :
             Cardinality({i \in DOMAIN structured_locations :
                             structured_locations[i]["country"] = c})
             = Cardinality({l \in visited : YieldsCountry(geo[l]) /\ geo[l].components["country"] = c})
       /\ pc = "returned" => pending = {} /\ result = Ok(structured_locations)

\* three strings: one lookup raises, one resolves to a bare country, one to
\* a city and country, and both resolved ones are returned
C6_Witness ==
    /\ pc = "returned"
    /\ \E a, b, c \in Range(locations) :
          /\ geo[a].kind = "exception"
          /\ YieldsCountry(geo[b]) /\ DOMAIN geo[b].components = {"country"}
          /\ YieldsCountry(geo[c]) /\ "city" \in DOMAIN geo[c].components
    /\ Len(result.value) = 2

(***************************************************************************)
(* POST /scrape: scrape_homepage and scrape_website                        *)
(***************************************************************************)
\* os.getenv("SECRET_KEY", "default_key")
SECRET_KEY == "default_key"

\* Header(None): "None" is the missing header
Authorizations == {"None", "default_key", "wrong"}

MaxRequestEnts == 1

AcmePage ==
    [title |-> [kind |-> "text", text |-> <<"Acme", " ", "|", " ", "Home">>],
     headers |-> << [tag |-> "h1", text |-> <<"Welcome">>],
                    [tag |-> "h2", text |-> <<"Building", "Tomorrow">>] >>,
     meta |-> [kind |-> "text", text |-> <<"We", "build">>],
     links |-> << <<"mailto:", "a@x.com">>, <<"tel:", "555", " ">> >>]

\* what the upstream host may serve: the parsed markup and its visible text
Sites ==
    {[html |-> NoPage, text |-> <<>>],
     [html |-> NoPage, text |-> <<"we", "build">>],
     [html |-> [NoPage EXCEPT !.title = [kind |-> "nostring", text |-> <<>>]],
      text |-> <<>>],
     [html |-> AcmePage, text |-> <<"Acme", "Paris", "49", "Employees", "Cloud">>]}

UpstreamStatuses == {200, 204, 304, 404, 503}

\* what requests.get(url, timeout=10) may do
UpstreamOutcomes ==
    {[kind |-> "timeout"], [kind |-> "connection"], [kind |-> "other"]}
    \cup [kind : {"response"}, status_code : UpstreamStatuses, site : Sites]

\* response.raise_for_status() raises HTTPError
RaisesForStatus(status_code) == 400 <= status_code /\ status_code < 600

\* a faulty variant of FetchStatus: a timeout is not told apart from an unexpected failure
FetchStatusTimeoutUnexpected(u) ==
    CASE u.kind = "timeout" -> 500
      [] u.kind = "connection" -> 503
      [] u.kind = "response" ->
            IF RaisesForStatus(u.status_code) THEN u.status_code ELSE 0
      [] OTHER -> 500

\* the outward status a fetch outcome ends the request with (0: the fetch
\* succeeded): the except clauses of scrape_website, and line 292 for the rest
FetchStatus(u) ==
    CASE u.kind = "timeout" -> 408
      [] u.kind = "connection" -> 503
      [] u.kind = "response" ->
            IF RaisesForStatus(u.status_code) THEN u.status_code ELSE 0
      [] OTHER -> 500

ExtractorOrder ==
    <<"company_name", "locations", "industry", "industry_size", "contact_info", "tagline">>

\* a faulty variant of After: the handler goes from the fetch straight to the extractors
AfterSkippingAnalysis(step) ==
    CASE step = "request" -> "authorize"
      [] step = "authorize" -> "fetch"
      [] step = "fetch" -> "company_name"
      [] step = "analyze" -> "company_name"
      [] step = "tagline" -> "assemble"
      [] OTHER -> ExtractorOrder[1 + CHOOSE i \in DOMAIN ExtractorOrder :
                                         ExtractorOrder[i] = step]

\* the statement that follows each step of scrape_homepage
After(step) ==
    CASE step = "request" -> "authorize"
      [] step = "authorize" -> "fetch"
      [] step = "fetch" -> "analyze"
      [] step = "analyze" -> "company_name"
      [] step = "tagline" -> "assemble"
      [] OTHER -> ExtractorOrder[1 + CHOOSE i \in DOMAIN ExtractorOrder :
                                         ExtractorOrder[i] = step]

InitRequest ==
    /\ pc = "request"
    /\ authorization \in Authorizations
    /\ body_valid \in BOOLEAN
    /\ upstream \in UpstreamOutcomes
    /\ html_content = NoPage
    /\ cleaned_text = <<>>
    /\ doc = NoDoc
    /\ calls = [fetch |-> 0, analyze |-> 0, analyzed |-> 0]
    /\ ran = <<>>
    /\ fields = <<>>
    /\ status = 0
    /\ responses = 0
    /\ result = NoResult
    /\ appended = <<>>
    /\ IdleGeo /\ IdleIndustry

\* the one response of the request
Respond(code) ==
    /\ status' = code
    /\ responses' = responses + 1
    /\ pc' = "done"

\* the framework validates the body against ScrapeRequest before it calls
\* the handler
Receive ==
    /\ pc = "request"
    /\ IF body_valid
       THEN pc' = After("request") /\ UNCHANGED <<status, responses>>
       ELSE Respond(422)
    /\ UNCHANGED <<authorization, body_valid, upstream, pageVars, calls, ran, fields,
                   result, geoVars, industryVars, appended>>

\* lines 274-275
Authorize ==
    /\ pc = "authorize"
    /\ IF authorization # SECRET_KEY
       THEN Respond(401)
       ELSE pc' = After("authorize") /\ UNCHANGED <<status, responses>>
    /\ UNCHANGED <<authorization, body_valid, upstream, pageVars, calls, ran, fields,
                   result, geoVars, industryVars, appended>>

\* line 278: scrape_website, and the except clauses it may end in
Fetch ==
    /\ pc = "fetch"
    /\ calls' = [calls EXCEPT !.fetch = @ + 1]
    /\ IF FetchStatus(upstream) # 0
       THEN Respond(FetchStatus(upstream)) /\ UNCHANGED <<html_content, cleaned_text>>
       ELSE /\ html_content' = upstream.site.html
            /\ cleaned_text' = upstream.site.text
            /\ pc' = After("fetch")
            /\ UNCHANGED <<status, responses>>
    /\ UNCHANGED <<authorization, body_valid, upstream, doc, ran, fields,
                   result, geoVars, industryVars, appended>>

\* line 279: doc = nlp(cleaned_text)
Analyze ==
    /\ pc = "analyze"
    /\ \/ /\ doc' \in [tokens : {cleaned_text},
                       ents : NerChoices(cleaned_text, MaxRequestEnts)]
          /\ calls' = [calls EXCEPT !.analyze = @ + 1, !.analyzed = @ + 1]
          /\ pc' = After("analyze")
          /\ UNCHANGED <<status, responses>>
       \/ /\ calls' = [calls EXCEPT !.analyze = @ + 1]
          /\ Respond(500)
          /\ UNCHANGED doc
    /\ UNCHANGED <<authorization, body_valid, upstream, html_content, cleaned_text, ran,
                   fields, result, geoVars, industryVars, appended>>

\* one keyword argument of ScrapeResponse(...): the extractor returns, or
\* raises into "except Exception" (line 291)
Extract(name, r) ==
    /\ pc = name
    /\ IF r.raised
       THEN Respond(500) /\ UNCHANGED <<ran, fields>>
       ELSE /\ ran' = Append(ran, name)
            /\ fields' = fields @@ (name :> r.value)
            /\ pc' = After(name)
            /\ UNCHANGED <<status, responses>>
    /\ UNCHANGED <<authorization, body_valid, upstream, pageVars, calls,
                   result, geoVars, industryVars, appended>>

\* line 282
ExtractName == Extract("company_name", extract_company_name(doc, cleaned_text, html_content))

\* set(locations) in some iteration order
Orders(S) == {o \in [1..Cardinality(S) -> S] : Range(o) = S}

\* line 283: extract_locations(doc)
ExtractLocations ==
    LET gpe_entities == EntTexts(doc, doc.ents, "GPE")
    IN \E g \in [Range(gpe_entities) -> GeoOutcomes] :
           \E order \in Orders(Range(gpe_entities)) :
               Extract("locations", Ok(parse_with_opencage(order, g)))

\* line 284
ExtractIndustry ==
    Extract("industry",
            Ok(determine_specific_industry(doc, cleaned_text, industry_keywords).top_industry))

\* line 285
ExtractSize == Extract("industry_size", Ok(extract_company_size(doc)))

\* line 286
ExtractContact == Extract("contact_info", Ok(extract_contact_info(html_content)))

\* line 287
ExtractTagline == Extract("tagline", extract_tagline(html_content))

\* lines 281-288: the ScrapeResponse is built and returned
Assemble ==
    /\ pc = "assemble"
    /\ Respond(200)
    /\ UNCHANGED <<authorization, body_valid, upstream, pageVars, calls, ran, fields,
                   result, geoVars, industryVars, appended>>

NextRequest ==
    \/ Receive
    \/ Authorize
    \/ Fetch
    \/ Analyze
    \/ ExtractName
    \/ ExtractLocations
    \/ ExtractIndustry
    \/ ExtractSize
    \/ ExtractContact
    \/ ExtractTagline
    \/ Assemble

Spec == InitRequest /\ [][NextRequest]_vars

(***************************************************************************)
(* Properties of the request flow                                          *)
(***************************************************************************)
NothingPerformed ==
    /\ calls.fetch = 0
    /\ calls.analyze = 0
    /\ ran = <<>>
    /\ fields = <<>>

\* C1: a request whose Authorization header is missing or differs from the
\* secret ends in 401, whatever its URL is, and no fetch, analysis or
\* extractor is performed for it.
C1_UnauthorizedAlways401 ==
    authorization # SECRET_KEY =>
        /\ NothingPerformed
        /\ pc = "done" => status = 401

NoProfile == calls.analyze = 0 /\ ran = <<>> /\ fields = <<>> /\ status # 200

Fetched == authorization = SECRET_KEY /\ body_valid /\ calls.fetch = 1

\* C2 as stated: a timeout ends in 408, a connection failure in 503, every
\* non-2xx upstream response in that upstream status, any other exception in
\* 500; no profile is returned and no extractor runs.
C2_NonSuccessStatusPropagated ==
    Fetched =>
        /\ upstream.kind = "timeout" => NoProfile /\ (pc = "done" => status = 408)
        /\ upstream.kind = "connection" => NoProfile /\ (pc = "done" => status = 503)
        /\ upstream.kind = "other" => NoProfile /\ (pc = "done" => status = 500)
        /\ (upstream.kind = "response" /\ upstream.status_code \notin 200..299) =>
              NoProfile /\ (pc = "done" => status = upstream.status_code)

\* C2 amended: as above, for the upstream responses with a 4xx or 5xx
\* status; the failed fetch is the last step of the request.
C2_FetchFailureStatus ==
    Fetched =>
        /\ upstream.kind = "timeout" => NoProfile /\ pc = "done" /\ status = 408
        /\ upstream.kind = "connection" => NoProfile /\ pc = "done" /\ status = 503
        /\ upstream.kind = "other" => NoProfile /\ pc = "done" /\ status = 500
        /\ (upstream.kind = "response" /\ upstream.status_code \in 400..599) =>
              NoProfile /\ pc = "done" /\ status = upstream.status_code
        /\ responses <= 1

\* an upstream 404 answered with 404, nothing analyzed or extracted
C2_Witness ==
    /\ Fetched
    /\ upstream.kind = "response"
    /\ upstream.status_code = 404
    /\ status = 404
    /\ pc = "done"

\* a page and document without any signal for the extractors
NoSignal ==
    /\ html_content.title.kind \in {"absent", "nostring"}
    /\ html_content.headers = <<>>
    /\ html_content.meta.kind = "absent"
    /\ html_content.links = <<>>
    /\ \A i \in DOMAIN doc.ents : doc.ents[i].label \notin {"ORG", "GPE"}
    /\ SizePhrases(doc.tokens) = {}

Defaults ==
    [company_name |-> Unknown,
     locations |-> <<>>,
     industry |-> Unknown,
     industry_size |-> "Unknown",
     contact_info |-> [emails |-> <<>>, phones |-> <<>>],
     tagline |-> Unknown]

\* C3: on a page without signal (no title or a title element without string
\* content, no headers, no meta description, no ORG/GPE entity, no size
\* phrase, no mailto/tel link) every extractor returns its default and the
\* request ends in 200, never in 500.
C3_NoSignalDegradesToDefaults ==
    (Fetched /\ calls.analyzed = 1 /\ NoSignal /\ pc = "done") =>
        /\ status = 200
        /\ DOMAIN fields = Range(ExtractorOrder)
        /\ \A f \in DOMAIN fields : fields[f] = Defaults[f]

ExtractorPositions == Range(ExtractorOrder)

\* the positions from which the handler takes a further step
Positions == {"request", "authorize", "fetch", "analyze", "assemble"} \cup ExtractorPositions

\* what holds in every state of an authorized request
LinearFlow ==
    /\ calls.fetch <= 1 /\ calls.analyze <= 1
    /\ calls.analyze = 1 => calls.fetch = 1 /\ FetchStatus(upstream) = 0
    /\ (ran # <<>> \/ pc \in ExtractorPositions \/ pc = "assemble") =>
          calls.analyzed = 1 /\ doc.tokens = cleaned_text
    /\ \A i, j \in DOMAIN ran : ran[i] = ran[j] => i = j
    /\ DOMAIN fields = Range(ran)
    /\ status = 200 =>
          /\ Range(ran) = Range(ExtractorOrder)
          /\ calls.fetch = 1 /\ calls.analyzed = 1
    /\ responses <= 1
    /\ (pc = "done") <=> (responses = 1)
    /\ (status # 0) <=> (responses = 1)
    /\ pc # "done" => pc \in Positions

\* what holds of every step of an authorized request
LinearStep ==
    /\ pc \in ExtractorPositions =>
          /\ doc' = doc
          /\ html_content' = html_content
          /\ cleaned_text' = cleaned_text
          /\ calls' = calls
    /\ calls'.fetch >= calls.fetch /\ calls'.analyze >= calls.analyze
    /\ Len(ran') >= Len(ran) /\ SubSeq(ran', 1, Len(ran)) = ran
    /\ status # 0 => status' = status

\* C10: an authorized request fetches and analyzes at most once and exactly
\* once before a 200, analyzes only after a successful fetch, runs each
\* extractor only after the analysis, on a document and markup no extractor
\* changes, answers 200 only after all six extractors returned, and ends in
\* exactly one response.
C10_LinearFlow ==
    /\ [](authorization = SECRET_KEY => LinearFlow)
    /\ [][authorization = SECRET_KEY => LinearStep]_vars

\* an authorized request answered 200 with entities and a resolved location
C10_Witness ==
    /\ authorization = SECRET_KEY
    /\ status = 200
    /\ Len(ran) = 6
    /\ doc.ents # <<>>
    /\ fields["locations"] # <<>>

=============================================================================
